---- MODULE Spec2Model ----
(***************************************************************************)
(* A model of the steam-achievement-recommender pipeline: the achievement  *)
(* table filled by the crawl, the training run that encodes it, fits a     *)
(* sequence model and saves it under models/, the loaders that pick an     *)
(* artifact of a game, and the scoring of one player's history.            *)
(*                                                                         *)
(* Text is modelled as a sequence of one-character strings, a pandas       *)
(* frame as a sequence of rows, and a Python dict as the sequence of its   *)
(* <<key, value>> pairs in insertion order.                                *)
(***************************************************************************)
EXTENDS Integers, Sequences, FiniteSets, TLC

VARIABLES
    db,      \* the rows of the sqlite table `achievement`, in rowid order
    store,   \* the directory Config.MODEL_DIR: file name -> saved artifact
    now,     \* the wall clock, as datetime.datetime.now() reads it
    tr,      \* the running invocations of fetch_data_and_train_model
    res      \* what the most recent load / predict / script call gave back

vars == <<db, store, now, tr, res>>

----------------------------------------------------------------------------
(* Bounds of the model.                                                    *)

\* largest unlock time the Steam API reports (0 = unlock time unknown)
MaxUnlock == 2
\* most rows the crawls of training runs leave in the achievement table
MaxRows == 3
\* the clock runs over the days 0..MaxDay, each with the seconds 0..MaxSec
MaxDay == 1
MaxSec == 1

Codes == {"a1", "a2", "a3"}
Players == {"p1", "p2"}
Appids == {<<"1">>, <<"1", "2">>}
Procs == {"t1", "t2"}
UnlockTimes == 0..MaxUnlock
\* the scores of the network, as two levels
ScoreValues == {0, 1}

\* the order in which the game's schema (and so the Steam API) lists the codes
SchemaOrder == <<"a1", "a2", "a3">>

----------------------------------------------------------------------------
(* Helpers for sequences, dicts and frames.                                *)

Range(s) == {s[i] : i \in 1..Len(s)}

Front(s) == SubSeq(s, 1, Len(s) - 1)

Last(s) == s[Len(s)]

MaxOf(S) == CHOOSE x \in S : \A y \in S : y <= x

\* pandas' missing value, left by Series.map for a key the dict lacks
NaN == 0 - 1

\* Series.unique(): the distinct values in order of first appearance
RECURSIVE Unique(_)
Unique(s) ==
    IF s = <<>> THEN <<>>
    ELSE LET u == Unique(Front(s))
         IN IF Last(s) \in Range(u) THEN u ELSE Append(u, Last(s))

DictKeys(d) == [i \in 1..Len(d) |-> d[i][1]]

DictValues(d) == [i \in 1..Len(d) |-> d[i][2]]

\* Series.map(dict) on one value: the dict's value, NaN for a missing key
DictGet(d, k) ==
    IF \E i \in 1..Len(d) : d[i][1] = k
    THEN d[CHOOSE i \in 1..Len(d) : d[i][1] = k][2]
    ELSE NaN

\* {v: k for k, v in d.items()}: a later pair with the same new key replaces
\* the value of the earlier one and keeps its place
RECURSIVE InvertDict(_)
InvertDict(d) ==
    IF d = <<>> THEN <<>>
    ELSE LET r == InvertDict(Front(d))
             p == <<Last(d)[2], Last(d)[1]>>
         IN IF \E i \in 1..Len(r) : r[i][1] = p[1]
            THEN [i \in 1..Len(r) |-> IF r[i][1] = p[1] THEN p ELSE r[i]]
            ELSE Append(r, p)

Column(df, c) == [i \in 1..Len(df) |-> df[i][c]]

----------------------------------------------------------------------------
(* The identifier maps and the interaction set of a training run.          *)

\* a variant of the map below that numbers from 0: idx in place of idx + 1
EnumerateDictZeroBased(column) ==
    LET u == Unique(column) IN [i \in 1..Len(u) |-> <<u[i], i - 1>>]

\* {x: idx + 1 for idx, x in enumerate(column.unique())}
EnumerateDict(column) ==
    LET u == Unique(column) IN [i \in 1..Len(u) |-> <<u[i], (i - 1) + 1>>]

\* SELECT * FROM achievement WHERE appid = {appid}
load_interactions_from_sqlite(table, appid) ==
    SelectSeq(table, LAMBDA r : r.appid = appid)

\* the two .map calls, dropna() and the unlocked != 0 filter
EncodeFrame(df, steam_id_dict, achievement_name_dict) ==
    LET mapped == [i \in 1..Len(df) |->
                     [steamid |-> DictGet(steam_id_dict, df[i].steamid),
                      apiname |-> DictGet(achievement_name_dict, df[i].apiname),
                      unlocked |-> df[i].unlocked]]
        kept == SelectSeq(mapped, LAMBDA r : r.steamid # NaN /\ r.apiname # NaN)
    IN SelectSeq(kept, LAMBDA r : r.unlocked # 0)

\* spotlight's Interactions(user_ids, item_ids, timestamps): num_items is
\* int(item_ids.max() + 1), which raises on an empty array
Interactions(user_ids, item_ids, timestamps) ==
    IF Len(item_ids) = 0
    THEN [ok |-> FALSE, error |-> "ValueError"]
    ELSE [ok |-> TRUE,
          user_ids |-> user_ids, item_ids |-> item_ids, timestamps |-> timestamps,
          num_users |-> MaxOf(Range(user_ids)) + 1,
          num_items |-> MaxOf(Range(item_ids)) + 1]

----------------------------------------------------------------------------
(* Interactions.to_sequence, as interactions_to_sequences calls it.        *)

\* np.lexsort((timestamps, user_ids)): by user, then by timestamp, stable
KeyLeq(a, b) == a.user < b.user \/ (a.user = b.user /\ a.ts <= b.ts)

\* a variant of the sort below that leaves the events in input order
InputOrder(s) == s

RECURSIVE LexSort(_)
LexSort(s) ==
    IF s = <<>> THEN <<>>
    ELSE LET t == LexSort(Front(s))
             x == Last(s)
             c == Cardinality({i \in 1..Len(t) : KeyLeq(t[i], x)})
         IN SubSeq(t, 1, c) \o <<x>> \o SubSeq(t, c + 1, Len(t))

\* _sliding_window: for i in range(len(tensor), 0, -step_size):
\*                      yield tensor[max(i - window_size, 0):i]
RECURSIVE SlidingWindow(_, _, _, _)
SlidingWindow(tensor, i, window_size, step_size) ==
    IF i <= 0 THEN <<>>
    ELSE <<SubSeq(tensor, (IF i - window_size > 0 THEN i - window_size ELSE 0) + 1, i)>>
         \o SlidingWindow(tensor, i - step_size, window_size, step_size)

\* sequences[i][-len(seq):] = seq on a row of zeros
LeftPad(seq, max_sequence_length) ==
    [i \in 1..max_sequence_length |->
        IF i <= max_sequence_length - Len(seq) THEN 0
        ELSE seq[i - (max_sequence_length - Len(seq))]]

RECURSIVE Flatten(_)
Flatten(ss) == IF ss = <<>> THEN <<>> ELSE ss[1] \o Flatten(Tail(ss))

\* the users in ascending order, as np.unique returns them
RECURSIVE Ascending(_)
Ascending(S) ==
    IF S = {} THEN <<>>
    ELSE LET m == CHOOSE x \in S : \A y \in S : x <= y
         IN <<m>> \o Ascending(S \ {m})

\* one user's rows of the result: the windows of the user's items, newest
\* first, each left-padded
UserRows(u, items, max_sequence_length) ==
    LET w == SlidingWindow(items, Len(items), max_sequence_length, max_sequence_length)
    IN [j \in 1..Len(w) |-> [user |-> u, sequence |-> LeftPad(w[j], max_sequence_length)]]

SequencesOf(sorted, users, max_sequence_length) ==
    Flatten([k \in 1..Len(users) |->
               UserRows(users[k],
                        Column(SelectSeq(sorted, LAMBDA e : e.user = users[k]), "item"),
                        max_sequence_length)])

EventsOf(interactions) ==
    [i \in 1..Len(interactions.item_ids) |->
        [user |-> interactions.user_ids[i],
         item |-> interactions.item_ids[i],
         ts |-> interactions.timestamps[i]]]

\* interactions.to_sequence(max_sequence_length, min_sequence_length=None,
\* step_size=None): step_size becomes max_sequence_length.  An exception
\* raised while the interactions were built is passed on.
interactions_to_sequences(interactions, max_sequence_length) ==
    IF ~interactions.ok THEN interactions
    ELSE IF 0 \in Range(interactions.item_ids)
    THEN [ok |-> FALSE, error |-> "ValueError"]
    ELSE [ok |-> TRUE,
          sequences |-> SequencesOf(LexSort(EventsOf(interactions)),
                                    Ascending(Range(interactions.user_ids)),
                                    max_sequence_length),
          num_items |-> interactions.num_items]

----------------------------------------------------------------------------
(* Lines 35-72 of fetch_data_and_train_model: from the table to the model. *)

\* ImplicitSequenceModel.fit keeps sequences.num_items; the reverse map
\* {v: k for k, v in achievement_name_dict.items()} is attached after the
\* fit.  The fitted parameters are a function of the sequences (the seed is
\* fixed), so the sequences stand for them.
FitModel(sequences, achievement_name_dict) ==
    [num_items |-> sequences.num_items,
     fitted_on |-> sequences.sequences,
     has_dict |-> TRUE,
     achievement_name_dict |-> InvertDict(achievement_name_dict)]

InteractionsOfFrame(enc) ==
    Interactions(Column(enc, "steamid"), Column(enc, "apiname"), Column(enc, "unlocked"))

TrainResult(steam_id_dict, achievement_name_dict, sequences) ==
    IF ~sequences.ok
    THEN [ok |-> FALSE, error |-> sequences.error,
          steam_id_dict |-> steam_id_dict,
          achievement_name_dict |-> achievement_name_dict]
    ELSE [ok |-> TRUE,
          steam_id_dict |-> steam_id_dict,
          achievement_name_dict |-> achievement_name_dict,
          sequences |-> sequences,
          model |-> FitModel(sequences, achievement_name_dict)]

TrainEncoded(df, steam_id_dict, achievement_name_dict, max_sequence_length) ==
    TrainResult(steam_id_dict, achievement_name_dict,
        interactions_to_sequences(
            InteractionsOfFrame(EncodeFrame(df, steam_id_dict, achievement_name_dict)),
            max_sequence_length))

TrainOnFrame(df) ==
    TrainEncoded(df, EnumerateDict(Column(df, "steamid")),
                 EnumerateDict(Column(df, "apiname")),
                 Len(DictKeys(EnumerateDict(Column(df, "apiname")))))

TrainOnTable(table, appid) == TrainOnFrame(load_interactions_from_sqlite(table, appid))

----------------------------------------------------------------------------
(* File names in the model directory.                                      *)

DigitChar(n) == <<"0", "1", "2", "3", "4", "5", "6", "7", "8", "9">>[n + 1]

IsDigitChar(c) == c \in {"0", "1", "2", "3", "4", "5", "6", "7", "8", "9"}

DigitValue(c) == CHOOSE n \in 0..9 : DigitChar(n) = c

\* strftime('%Y-%m-%d_%H-%M-%S'): the date field, an underscore, the time
\* field, each of fixed width
FormatDateTime(t) == <<DigitChar(t.day), "_", DigitChar(t.sec)>>

\* strftime('%Y-%m-%d'): the date field alone
FormatDate(t) == <<DigitChar(t.day)>>

\* strptime(text, '%Y-%m-%d_%H-%M-%S'): raises ValueError unless the text is
\* a date field, an underscore and a time field
ParseDateTime(text) ==
    IF Len(text) = 3 /\ IsDigitChar(text[1]) /\ text[2] = "_" /\ IsDigitChar(text[3])
    THEN [ok |-> TRUE, day |-> DigitValue(text[1]), sec |-> DigitValue(text[3])]
    ELSE [ok |-> FALSE, error |-> "ValueError"]

\* the order of datetime objects
DateTimeLeq(a, b) == a.day < b.day \/ (a.day = b.day /\ a.sec <= b.sec)

\* f"{appid}_{stamp}"
ModelName(appid, stamp) == appid \o <<"_">> \o stamp

\* str.startswith
StartsWith(text, prefix) ==
    Len(prefix) <= Len(text) /\ SubSeq(text, 1, Len(prefix)) = prefix

\* '_'.join(name.split('_')[1:]): what follows the first underscore
AfterFirstUnderscore(name) ==
    IF \E i \in 1..Len(name) : name[i] = "_"
    THEN LET i == CHOOSE j \in 1..Len(name) :
                      name[j] = "_" /\ \A k \in 1..(j - 1) : name[k] # "_"
         IN SubSeq(name, i + 1, Len(name))
    ELSE <<>>

\* the order of Python strings over the characters of file names
CharCode(c) == IF c = "_" THEN 95 ELSE 48 + DigitValue(c)

RECURSIVE StrLess(_, _)
StrLess(a, b) ==
    IF b = <<>> THEN FALSE
    ELSE IF a = <<>> THEN TRUE
    ELSE IF a[1] # b[1] THEN CharCode(a[1]) < CharCode(b[1])
    ELSE StrLess(Tail(a), Tail(b))

\* [m for m in os.listdir(dir) if m.startswith(f"{appid}_")]; file names are
\* distinct, so the order of the listing does not show in what the loaders do
ModelsForAppid(dir, appid) ==
    {m \in DOMAIN dir : StartsWith(m, appid \o <<"_">>)}

----------------------------------------------------------------------------
(* The two loaders.                                                        *)

\* predict_scores.load_latest_model: FileNotFoundError without a file of the
\* game, ValueError from strptime on a name it cannot parse, else the file
\* with the greatest parsed datetime
load_latest_model(dir, appid) ==
    LET models_for_appid == ModelsForAppid(dir, appid)
        Stamp(m) == ParseDateTime(AfterFirstUnderscore(m))
    IN IF models_for_appid = {}
       THEN [ok |-> FALSE, error |-> "FileNotFoundError"]
       ELSE IF \E m \in models_for_appid : ~Stamp(m).ok
       THEN [ok |-> FALSE, error |-> "ValueError"]
       ELSE LET most_recent_model ==
                    CHOOSE m \in models_for_appid :
                        \A o \in models_for_appid : DateTimeLeq(Stamp(o), Stamp(m))
            IN [ok |-> TRUE, name |-> most_recent_model,
                model |-> dir[most_recent_model]]

\* max(models_for_appid) in model.load_most_recent_model: the greatest name
\* in string order
MaxName(names) ==
    CHOOSE m \in names : \A o \in names : o = m \/ StrLess(o, m)

----------------------------------------------------------------------------
(* Scoring one sequence.                                                   *)

\* np.trim_zeros(user_sequence, 'f')
RECURSIVE TrimZerosFront(_)
TrimZerosFront(seq) ==
    IF seq # <<>> /\ seq[1] = 0 THEN TrimZerosFront(Tail(seq)) ELSE seq

\* model.predict(sequences=user_sequence): _check_input raises when an id of
\* the sequence reaches num_items; the answer has num_items scores, for the
\* ids 0..num_items-1 (here at the indices 1..num_items)
ScoreVectors(model) == [1..model.num_items -> ScoreValues]

PredictRaises(model, user_sequence) ==
    \E i \in 1..Len(user_sequence) : user_sequence[i] >= model.num_items

\* the permutations of 1..n
Perms(n) == {f \in [1..n -> 1..n] : \A i, j \in 1..n : i # j => f[i] # f[j]}

\* Series.sort_values(ascending=False): the scores come out non-increasing;
\* how equal scores are ordered is not fixed by the call (quicksort)
IsDescending(series) ==
    \A i \in 1..(Len(series) - 1) : series[i][2] >= series[i + 1][2]

SortOrders(series) ==
    {f \in Perms(Len(series)) : IsDescending([i \in 1..Len(series) |-> series[f[i]]])}

\* a variant of the choice below that ignores exclude_last_item
KeptOutAll(user_items, exclude_last_item) == Range(user_items)

\* the items get_ranked_scores_for_user keeps out: user_items[:-1] or
\* user_items[:]
KeptOut(user_items, exclude_last_item) ==
    IF exclude_last_item THEN Range(Front(user_items)) ELSE Range(user_items)

\* get_ranked_scores_for_user up to the sort: scores[1:] labelled by the
\* keys of the dict (a ValueError when the lengths differ), then
\* .loc[desired_items]
get_ranked_scores_for_user(scores, user_sequence, achievement_name_dict, exclude_last_item) ==
    LET user_items == TrimZerosFront(user_sequence)
        out == KeptOut(user_items, exclude_last_item)
        desired_items ==
            DictKeys(SelectSeq(achievement_name_dict, LAMBDA p : p[2] \notin out))
        keys == DictKeys(achievement_name_dict)
        ScoreOf(key) == scores[(CHOOSE i \in 1..Len(keys) : keys[i] = key) + 1]
    IN IF Len(scores) - 1 # Len(keys)
       THEN [ok |-> FALSE, error |-> "ValueError"]
       ELSE [ok |-> TRUE,
             series |-> [i \in 1..Len(desired_items) |->
                           <<desired_items[i], ScoreOf(desired_items[i])>>]]

\* get_ranked_scores_for_user_with_model of model.py: the same body, with
\* exclude_last_item=True as its default
get_ranked_scores_for_user_with_model(scores, user_sequence, achievement_name_dict, exclude_last_item) ==
    get_ranked_scores_for_user(scores, user_sequence, achievement_name_dict,
                               exclude_last_item)

\* convert_achievements_to_interactions: the rows of the player (user id 1),
\* the codes mapped through the dict, dropna(), timestamp != 0
convert_achievements_to_interactions(achievements_list, achievement_name_dict) ==
    LET data == [i \in 1..Len(achievements_list) |->
                   [steam_id |-> 1,
                    achievement_name |->
                        DictGet(achievement_name_dict, achievements_list[i].apiname),
                    timestamp |-> achievements_list[i].unlocktime]]
        kept == SelectSeq(data, LAMBDA r : r.achievement_name # NaN)
        df == SelectSeq(kept, LAMBDA r : r.timestamp # 0)
    IN Interactions(Column(df, "steam_id"), Column(df, "achievement_name"),
                    Column(df, "timestamp"))

----------------------------------------------------------------------------
(* What the Steam API gives for one player, and how the crawl stores it.   *)

\* get_player_achievements: the records with achieved == 1, one per code, in
\* the order of the game's schema; an empty list when the request fails
AchievementLists ==
    UNION {{[i \in 1..Len(SelectSeq(SchemaOrder, LAMBDA c : c \in S)) |->
               [apiname |-> SelectSeq(SchemaOrder, LAMBDA c : c \in S)[i],
                unlocktime |-> t[SelectSeq(SchemaOrder, LAMBDA c : c \in S)[i]]]]
            : t \in [S -> UnlockTimes]} : S \in SUBSET Codes}

\* a variant of the insert below for a table without the primary key
InsertAll(table, rows) == table \o rows

\* save_player_achievements_to_sqlite: INSERT OR IGNORE of one row per
\* record under the primary key (steamid, appid, apiname); False for an
\* empty list
RECURSIVE InsertOrIgnore(_, _)
InsertOrIgnore(table, rows) ==
    IF rows = <<>> THEN table
    ELSE LET r == rows[1]
             clash == \E i \in 1..Len(table) :
                          /\ table[i].steamid = r.steamid
                          /\ table[i].appid = r.appid
                          /\ table[i].apiname = r.apiname
         IN InsertOrIgnore(IF clash THEN table ELSE Append(table, r), Tail(rows))

save_player_achievements_to_sqlite(table, achievements, steam_id, appid) ==
    InsertOrIgnore(table,
        [i \in 1..Len(achievements) |->
            [steamid |-> steam_id, appid |-> appid,
             apiname |-> achievements[i].apiname,
             unlocked |-> achievements[i].unlocktime]])

----------------------------------------------------------------------------
(* predict_scores and the __main__ block of predict_scores.py.             *)

\* res holds the outcome of the command that ran last until the shell has
\* taken it; NoResult when no command has run since
NoResult == [op |-> "none"]

\* the command's process ends
Exit ==
    /\ res # NoResult
    /\ res' = NoResult
    /\ UNCHANGED <<db, store, now, tr>>

\* lines 131-152 of predict_scores: what it hands to the network when it
\* gets that far, else how it ends
ScoringSequenced(loaded, achievement_name_dict, sequences) ==
    IF ~sequences.ok THEN [stage |-> "raised", error |-> sequences.error]
    ELSE IF PredictRaises(loaded.model, sequences.sequences[1].sequence)
    THEN [stage |-> "raised", error |-> "ValueError"]
    ELSE [stage |-> "score",
          name |-> loaded.name,
          model |-> loaded.model,
          achievement_name_dict |-> achievement_name_dict,
          player_sequence |-> sequences.sequences[1].sequence]

ScoringMapped(loaded, achievement_name_dict, player_achievements) ==
    IF player_achievements = <<>> THEN [stage |-> "empty"]
    ELSE IF Range(DictKeys(achievement_name_dict))
                \ {player_achievements[i].apiname : i \in 1..Len(player_achievements)} = {}
    THEN [stage |-> "none"]
    ELSE ScoringSequenced(loaded, achievement_name_dict,
            interactions_to_sequences(
                convert_achievements_to_interactions(player_achievements,
                                                     achievement_name_dict),
                Len(DictKeys(achievement_name_dict))))

ScoringLoaded(loaded, player_achievements) ==
    IF ~loaded.ok THEN [stage |-> "raised", error |-> loaded.error]
    ELSE IF ~loaded.model.has_dict THEN [stage |-> "raised", error |-> "AttributeError"]
    ELSE ScoringMapped(loaded, InvertDict(loaded.model.achievement_name_dict),
                       player_achievements)

ScoringInput(dir, appid, player_achievements) ==
    ScoringLoaded(load_latest_model(dir, appid), player_achievements)

\* what predict_scores(steam_id, appid) gives back: "Series" with the
\* ranking, "None" when the function falls off its end, or the exception
predict_scores(input, ranked, order) ==
    IF input.stage = "raised" THEN [ok |-> FALSE, error |-> input.error]
    ELSE IF input.stage = "empty" THEN [ok |-> TRUE, returned |-> "Series", series |-> <<>>]
    ELSE IF input.stage = "none" THEN [ok |-> TRUE, returned |-> "None"]
    ELSE IF ~ranked.ok THEN [ok |-> FALSE, error |-> ranked.error]
    ELSE [ok |-> TRUE, returned |-> "Series",
          series |-> [i \in 1..Len(ranked.series) |-> ranked.series[order[i]]]]

\* join_scores_with_descriptions: None has no rename (AttributeError); a
\* Series is merged with the descriptions and sorted by score once more
join_scores_with_descriptions(predicted, order) ==
    IF ~predicted.ok THEN [ran |-> FALSE]
    ELSE IF predicted.returned = "None"
    THEN [ran |-> TRUE, ok |-> FALSE, error |-> "AttributeError"]
    ELSE [ran |-> TRUE, ok |-> TRUE,
          rows |-> [i \in 1..Len(predicted.series) |-> predicted.series[order[i]]]]

\* python predict_scores.py <steam_id> <appid>: the scores are the network's
\* and the two sorts leave equal scores in an order of their own
PredictJoined(appid, player_achievements, input, scores, predicted) ==
    \E again \in (IF predicted.ok /\ predicted.returned = "Series"
                  THEN SortOrders(predicted.series) ELSE {<<>>}) :
        res' = [op |-> "predict", appid |-> appid,
                history |-> player_achievements,
                input |-> input,
                scores |-> scores,
                predicted |-> predicted,
                joined |-> join_scores_with_descriptions(predicted, again)]

PredictRanked(appid, player_achievements, input, scores, ranked) ==
    \E order \in (IF ranked.ok THEN SortOrders(ranked.series) ELSE {<<>>}) :
        PredictJoined(appid, player_achievements, input, scores,
                      predict_scores(input, ranked, order))

PredictFrom(appid, player_achievements, input) ==
    IF input.stage = "score"
    THEN \E scores \in ScoreVectors(input.model) :
            PredictRanked(appid, player_achievements, input, scores,
                get_ranked_scores_for_user(scores, input.player_sequence,
                                           input.achievement_name_dict, FALSE))
    ELSE PredictJoined(appid, player_achievements, input, <<>>,
                       predict_scores(input, [ok |-> FALSE], <<>>))

PredictMain(appid, player_achievements) ==
    /\ res = NoResult
    /\ PredictFrom(appid, player_achievements,
                   ScoringInput(store, appid, player_achievements))
    /\ UNCHANGED <<db, store, now, tr>>

----------------------------------------------------------------------------
(* model.py: save_model, load_most_recent_model and the script around them.*)

EmptyDir == [m \in {} |-> NoResult]

\* writing a file: a file of that name is replaced
WriteFile(dir, name, content) ==
    [m \in DOMAIN dir \cup {name} |-> IF m = name THEN content ELSE dir[m]]

\* lines 85-98 of model.py: the maps rebuilt from the table as it is now and
\* the sequences of length MAX_SEQUENCE_LENGTH (the unlock time is the
\* column the script calls 'timestamp')
ScriptFrame(df, MAX_SEQUENCE_LENGTH) ==
    TrainEncoded(df, EnumerateDict(Column(df, "steamid")),
                 EnumerateDict(Column(df, "apiname")), MAX_SEQUENCE_LENGTH)

ScriptData(table, appid, MAX_SEQUENCE_LENGTH) ==
    ScriptFrame(load_interactions_from_sqlite(table, appid), MAX_SEQUENCE_LENGTH)

\* save_model(model, appid): the file f"{appid}_{today_date}", date only
save_model(dir, model, appid, today) ==
    WriteFile(dir, ModelName(appid, FormatDate(today)), model)

\* the model load_most_recent_model fits itself: no map is attached
ScriptFit(sequences) ==
    [num_items |-> sequences.num_items,
     fitted_on |-> sequences.sequences,
     has_dict |-> FALSE,
     achievement_name_dict |-> <<>>]

\* load_most_recent_model(appid): without a file of the game it fits a model
\* on the script's sequences and saves it; else it loads the file whose name
\* is greatest
load_most_recent_model(dir, appid, sequences, today) ==
    IF ModelsForAppid(dir, appid) = {}
    THEN [trained |-> TRUE, model |-> ScriptFit(sequences),
          dir |-> save_model(dir, ScriptFit(sequences), appid, today)]
    ELSE [trained |-> FALSE, model |-> dir[MaxName(ModelsForAppid(dir, appid))],
          dir |-> dir]

\* lines 81-110 of model.py, for APP_ID = appid
ScriptRanked(appid, data, loaded, scores, ranked) ==
    IF ~ranked.ok
    THEN res' = [op |-> "script", appid |-> appid, ok |-> FALSE,
                 error |-> ranked.error, loaded |-> TRUE, trained |-> loaded.trained]
    ELSE \E order \in SortOrders(ranked.series) :
            res' = [op |-> "script", appid |-> appid, ok |-> TRUE,
                    loaded |-> TRUE, trained |-> loaded.trained,
                    model |-> loaded.model,
                    achievement_name_dict |-> data.achievement_name_dict,
                    user_sequence |-> data.sequences.sequences[1].sequence,
                    scores |-> scores,
                    series |-> [i \in 1..Len(ranked.series) |-> ranked.series[order[i]]]]

ScriptLoaded(appid, data, loaded) ==
    /\ store' = loaded.dir
    /\ IF PredictRaises(loaded.model, data.sequences.sequences[1].sequence)
       THEN res' = [op |-> "script", appid |-> appid, ok |-> FALSE,
                    error |-> "ValueError", loaded |-> TRUE, trained |-> loaded.trained]
       ELSE \E scores \in ScoreVectors(loaded.model) :
               ScriptRanked(appid, data, loaded, scores,
                   get_ranked_scores_for_user_with_model(
                       scores, data.sequences.sequences[1].sequence,
                       data.achievement_name_dict, TRUE))

ScriptFrom(appid, data) ==
    IF ~data.ok
    THEN /\ res' = [op |-> "script", appid |-> appid, ok |-> FALSE,
                    error |-> data.error, loaded |-> FALSE, trained |-> FALSE]
         /\ store' = store
    ELSE ScriptLoaded(appid, data,
                      load_most_recent_model(store, appid, data.sequences, now))

ModelScript(appid, MAX_SEQUENCE_LENGTH) ==
    /\ res = NoResult
    /\ ScriptFrom(appid, ScriptData(db, appid, MAX_SEQUENCE_LENGTH))
    /\ UNCHANGED <<db, now, tr>>

----------------------------------------------------------------------------
(* fetch_data_and_train_model, one step of a run at a time.                *)

Idle == [pc |-> "idle"]

\* what GetSchemaForGame answers: no answer (None), a schema without the
\* keys looked for (ValueError), or the list of the game's achievements
CatalogAnswers ==
    {[kind |-> "None"], [kind |-> "raises"]}
        \cup {[kind |-> "list", achievements |-> SubSeq(SchemaOrder, 1, n)] :
                 n \in 0..Len(SchemaOrder)}

\* the players a crawl visits, each once, with what the API lists for them
CrawlVisits ==
    UNION {{v \in [1..n -> [steam_id : Players, achievements : AchievementLists]] :
               \A i, j \in 1..n : i # j => v[i].steam_id # v[j].steam_id}
           : n \in 0..Cardinality(Players)}

\* the rows the crawl leaves: save_player_achievements_to_sqlite per visit
RECURSIVE CrawlInto(_, _, _)
CrawlInto(table, visits, appid) ==
    IF visits = <<>> THEN table
    ELSE CrawlInto(save_player_achievements_to_sqlite(
                       table, visits[1].achievements, visits[1].steam_id, appid),
                   Tail(visits), appid)

VisitedCodes(visits) ==
    UNION {{visits[i].achievements[j].apiname : j \in 1..Len(visits[i].achievements)}
           : i \in 1..Len(visits)}

\* the except clause of lines 85-86: the error is printed and the function
\* returns as after a success
Swallowed(appid, stage, error) ==
    [pc |-> "done", appid |-> appid, stage |-> stage, error |-> error,
     raised |-> FALSE]

\* lines 23-31: the check of the game's catalog
TrainCheck(p, appid, answer) ==
    /\ tr[p].pc = "idle"
    /\ tr' = [tr EXCEPT ![p] =
                IF answer.kind = "raises"
                THEN Swallowed(appid, "check", "ValueError")
                ELSE IF answer.kind = "None" \/ Len(answer.achievements) = 0
                THEN Swallowed(appid, "check", "ValueError")
                ELSE IF Len(answer.achievements) = 1
                THEN Swallowed(appid, "check", "ValueError")
                ELSE [pc |-> "checked", appid |-> appid,
                      catalog |-> answer.achievements]]
    /\ UNCHANGED <<db, store, now, res>>

\* line 34: get_achievements_for_appid stores what the visited players hold;
\* an exception it raises after that ends the run
CrawlStep(p, visits, crawl_ok) ==
    /\ VisitedCodes(visits) \subseteq Range(tr[p].catalog)
    /\ Len(CrawlInto(db, visits, tr[p].appid)) <= MaxRows
    /\ db' = CrawlInto(db, visits, tr[p].appid)
    /\ tr' = [tr EXCEPT ![p] =
                IF crawl_ok THEN [pc |-> "crawled", appid |-> tr[p].appid]
                ELSE Swallowed(tr[p].appid, "crawl", "Exception")]
    /\ UNCHANGED <<store, now, res>>

TrainCrawl(p, visited) ==
    /\ tr[p].pc = "checked"
    /\ \E visits \in visited : \E crawl_ok \in BOOLEAN : CrawlStep(p, visits, crawl_ok)

\* what a run holds once lines 37-72 are through
Fitted(appid, run) ==
    [pc |-> "fitted", appid |-> appid,
     steam_id_dict |-> run.steam_id_dict,
     achievement_name_dict |-> run.achievement_name_dict,
     sequences |-> run.sequences.sequences,
     model |-> run.model]

\* a run that ends between line 37 and line 72, with the maps it had built
FitFailed(appid, run, error) ==
    [pc |-> "done", appid |-> appid, stage |-> "fit", error |-> error,
     raised |-> FALSE,
     steam_id_dict |-> run.steam_id_dict,
     achievement_name_dict |-> run.achievement_name_dict]

FitStep(appid, run, fit_ok) ==
    IF ~run.ok THEN FitFailed(appid, run, run.error)
    ELSE IF ~fit_ok THEN FitFailed(appid, run, "Exception")
    ELSE Fitted(appid, run)

\* a variant of the step below that opens the model file before it fits
TrainFitSavingFirst(p, fit_ok) ==
    /\ tr[p].pc = "crawled"
    /\ tr' = [tr EXCEPT ![p] = FitStep(tr[p].appid, TrainOnTable(db, tr[p].appid), fit_ok)]
    /\ store' = WriteFile(store, ModelName(tr[p].appid, FormatDateTime(now)), <<>>)
    /\ UNCHANGED <<db, now, res>>

\* lines 35-72: the table is read and encoded, the sequences are built, the
\* model is fitted and the reverse map attached; nothing is written
TrainFit(p, fit_ok) ==
    /\ tr[p].pc = "crawled"
    /\ tr' = [tr EXCEPT ![p] = FitStep(tr[p].appid, TrainOnTable(db, tr[p].appid), fit_ok)]
    /\ UNCHANGED <<db, store, now, res>>

\* lines 74-83: torch.save under f"{appid}_{today_datetime}"
TrainSave(p) ==
    /\ tr[p].pc = "fitted"
    /\ store' = WriteFile(store, ModelName(tr[p].appid, FormatDateTime(now)), tr[p].model)
    /\ tr' = [tr EXCEPT ![p] =
                [pc |-> "done", appid |-> tr[p].appid, stage |-> "save", error |-> "",
                 raised |-> FALSE,
                 saved_as |-> ModelName(tr[p].appid, FormatDateTime(now)),
                 steam_id_dict |-> tr[p].steam_id_dict,
                 achievement_name_dict |-> tr[p].achievement_name_dict]]
    /\ UNCHANGED <<db, now, res>>

\* time passes
ClockValues == [day : 0..MaxDay, sec : 0..MaxSec]

Tick ==
    /\ \E t \in ClockValues : t # now /\ DateTimeLeq(now, t) /\ now' = t
    /\ UNCHANGED <<db, store, tr, res>>

\* load_latest_model called for a game, as predict_scores calls it
LoadLatestModel(appid) ==
    /\ res = NoResult
    /\ res' = [op |-> "load_latest", appid |-> appid,
               loaded |-> load_latest_model(store, appid)]
    /\ UNCHANGED <<db, store, now, tr>>

----------------------------------------------------------------------------
(* One training run on a fresh installation.                               *)

Midnight == [day |-> 0, sec |-> 0]

InitFresh ==
    /\ db = <<>>
    /\ store = EmptyDir
    /\ now = Midnight
    /\ tr = [p \in Procs |-> Idle]
    /\ res = NoResult

NextTrain ==
    \/ \E answer \in CatalogAnswers : TrainCheck("t1", <<"1">>, answer)
    \/ TrainCrawl("t1", CrawlVisits)
    \/ \E fit_ok \in BOOLEAN : TrainFit("t1", fit_ok)
    \/ TrainSave("t1")

SpecTrain == InitFresh /\ [][NextTrain]_vars

----------------------------------------------------------------------------
(* Training runs, the script of model.py and loads on one model directory. *)

\* crawls that find one player each: p1 with two achievements, p2 with one
StoreVisits ==
    {<<>>,
     <<[steam_id |-> "p1",
        achievements |-> <<[apiname |-> "a1", unlocktime |-> 1],
                           [apiname |-> "a2", unlocktime |-> 2]>>]>>,
     <<[steam_id |-> "p2",
        achievements |-> <<[apiname |-> "a1", unlocktime |-> 1]>>]>>}

StoreCatalogs ==
    {[kind |-> "None"], [kind |-> "list", achievements |-> SchemaOrder]}

NextStore ==
    \/ \E p \in Procs : \E appid \in Appids : \E answer \in StoreCatalogs :
          TrainCheck(p, appid, answer)
    \/ \E p \in Procs : TrainCrawl(p, StoreVisits)
    \/ \E p \in Procs : TrainFit(p, TRUE)
    \/ \E p \in Procs : TrainSave(p)
    \/ Tick
    \/ \E appid \in Appids : LoadLatestModel(appid)
    \/ \E appid \in Appids : ModelScript(appid, Cardinality(Codes))
    \/ Exit

SpecStore == InitFresh /\ [][NextStore]_vars

----------------------------------------------------------------------------
(* Training runs of one game that crawl players already in the table.      *)

\* crawls that find p1 with one achievement of unknown unlock time, p1 and
\* then p2, p1 with one more achievement, or p2
RepeatVisits ==
    {<<>>,
     <<[steam_id |-> "p1",
        achievements |-> <<[apiname |-> "a1", unlocktime |-> 0]>>]>>,
     <<[steam_id |-> "p1",
        achievements |-> <<[apiname |-> "a1", unlocktime |-> 0]>>],
       [steam_id |-> "p2",
        achievements |-> <<[apiname |-> "a3", unlocktime |-> 1]>>]>>,
     <<[steam_id |-> "p1",
        achievements |-> <<[apiname |-> "a1", unlocktime |-> 0],
                           [apiname |-> "a2", unlocktime |-> 1]>>]>>,
     <<[steam_id |-> "p2",
        achievements |-> <<[apiname |-> "a3", unlocktime |-> 1]>>]>>}

NextRetrain ==
    \/ \E p \in Procs : TrainCheck(p, <<"1">>, [kind |-> "list", achievements |-> SchemaOrder])
    \/ \E p \in Procs : TrainCrawl(p, RepeatVisits)
    \/ \E p \in Procs : TrainFit(p, TRUE)
    \/ \E p \in Procs : TrainSave(p)

SpecRetrain == InitFresh /\ [][NextRetrain]_vars

----------------------------------------------------------------------------
(* Scoring against the model of one finished training run.                 *)

\* what a second player may hold: two achievements unlocked against the
\* order of the schema, or two unlocked at the same time
SecondLists ==
    {<<[apiname |-> "a1", unlocktime |-> 2], [apiname |-> "a3", unlocktime |-> 1]>>,
     <<[apiname |-> "a2", unlocktime |-> 1], [apiname |-> "a3", unlocktime |-> 1]>>}

\* the crawls behind the table: p1 with any list, alone or with p2 found
\* before or after
RankVisits ==
    {<<[steam_id |-> "p1", achievements |-> l]>> : l \in AchievementLists}
        \cup {<<[steam_id |-> "p1", achievements |-> l],
                [steam_id |-> "p2", achievements |-> m]>> :
                  l \in AchievementLists, m \in SecondLists}
        \cup {<<[steam_id |-> "p2", achievements |-> m],
                [steam_id |-> "p1", achievements |-> l]>> :
                  l \in AchievementLists, m \in SecondLists}

\* the table a crawl of game "1" leaves, and the artifact a training run
\* saved from it (none when the run failed)
InitRank ==
    /\ now = Midnight
    /\ tr = [p \in Procs |-> Idle]
    /\ res = NoResult
    /\ \E visits \in RankVisits : db = CrawlInto(<<>>, visits, <<"1">>)
    /\ store = LET run == TrainOnTable(db, <<"1">>)
               IN IF run.ok
                  THEN WriteFile(EmptyDir, ModelName(<<"1">>, FormatDateTime(now)), run.model)
                  ELSE EmptyDir

NextRank ==
    \/ \E player_achievements \in AchievementLists : PredictMain(<<"1">>, player_achievements)
    \/ \E MAX_SEQUENCE_LENGTH \in 1..Cardinality(Codes) : ModelScript(<<"1">>, MAX_SEQUENCE_LENGTH)

SpecRank == InitRank /\ [][NextRank]_vars

----------------------------------------------------------------------------
(* Properties of the scoring path, checked under SpecRank.                 *)

\* the codes a fetched history holds
Held(player_achievements) ==
    {player_achievements[i].apiname : i \in 1..Len(player_achievements)}

\* the codes a ranking names
RankedCodes(series) == {series[i][1] : i \in 1..Len(series)}

\* the codes of a name -> id dict whose id lies in a set of ids
CodesWithId(achievement_name_dict, ids) ==
    {achievement_name_dict[i][1] : i \in {j \in 1..Len(achievement_name_dict) :
                                             achievement_name_dict[j][2] \in ids}}

PredictReturnedSeries ==
    /\ res.op = "predict"
    /\ res.predicted.ok
    /\ res.predicted.returned = "Series"

\* C1: the ranking predict_scores returns names no achievement code that is
\* present in the player's fetched unlock records, records with unlock time 0
\* included.
C1_NoHeldCodeRanked ==
    PredictReturnedSeries =>
        RankedCodes(res.predicted.series) \cap Held(res.history) = {}

\* C2: get_ranked_scores_for_user returns no excluded code and every code
\* that is not excluded.  Without exclude_last_item (predict_scores) the
\* excluded codes are those of all items of the sequence; with it (the script
\* of model.py) they are those of all items but the last, and the code of the
\* last item is in the output.
C2_PredictExcludesAll ==
    (PredictReturnedSeries /\ res.input.stage = "score") =>
        RankedCodes(res.predicted.series) =
            RankedCodes(res.input.achievement_name_dict)
                \ CodesWithId(res.input.achievement_name_dict,
                              Range(res.input.player_sequence) \ {0})

C2_ScriptExcludesAllButLast ==
    (res.op = "script" /\ res.ok) =>
        LET items == SelectSeq(res.user_sequence, LAMBDA x : x # 0)
            earlier == {items[i] : i \in 1..(Len(items) - 1)}
        IN /\ RankedCodes(res.series) =
                  RankedCodes(res.achievement_name_dict)
                      \ CodesWithId(res.achievement_name_dict, earlier)
           /\ CodesWithId(res.achievement_name_dict, {items[Len(items)]})
                  \subseteq RankedCodes(res.series)

C2_RankedExcludesExactly == C2_PredictExcludesAll /\ C2_ScriptExcludesAllButLast

\* a script run that ranked a sequence of two or more items
C2_Witness ==
    /\ res.op = "script"
    /\ res.ok
    /\ Cardinality({i \in 1..Len(res.user_sequence) : res.user_sequence[i] # 0}) >= 2
    /\ res.series # <<>>

\* the model a prediction for the game loads, when it loads one with its map
LoadsModel(appid) ==
    /\ load_latest_model(store, appid).ok
    /\ load_latest_model(store, appid).model.has_dict

ModelCodes(appid) ==
    {load_latest_model(store, appid).model.achievement_name_dict[i][2] :
        i \in 1..Len(load_latest_model(store, appid).model.achievement_name_dict)}

\* C3: when the fetched history holds every code of the model's reverse map,
\* predict_scores returns an empty ranking and the call, the join with the
\* descriptions included, ends without an error.
C3_AllHeldGivesEmptyRanking ==
    (/\ res.op = "predict"
     /\ LoadsModel(res.appid)
     /\ ModelCodes(res.appid) \subseteq Held(res.history))
        => /\ PredictReturnedSeries
           /\ res.predicted.series = <<>>
           /\ res.joined.ran
           /\ res.joined.ok

\* C4: for a non-empty history, the codes the model's map lacks are dropped
\* and the call still returns a ranking over the model's codes, also when the
\* map lacks every code of the history.  (Stated for histories whose unlock
\* times are known, that do not hold the whole map, and for a model with one
\* score per code, so that only the dropping of stale codes is at stake.)
C4_StaleCodesDropped ==
    (/\ res.op = "predict"
     /\ LoadsModel(res.appid)
     /\ res.history # <<>>
     /\ \A i \in 1..Len(res.history) : res.history[i].unlocktime # 0
     /\ ~(ModelCodes(res.appid) \subseteq Held(res.history))
     /\ load_latest_model(store, res.appid).model.num_items
            = Cardinality(ModelCodes(res.appid)) + 1)
        => /\ PredictReturnedSeries
           /\ RankedCodes(res.predicted.series) =
                  ModelCodes(res.appid) \ Held(res.history)

----------------------------------------------------------------------------
(* Properties of a training run, checked under SpecTrain.                  *)

\* the runs that got as far as reading the table and building the maps
BuiltMaps(p) == "achievement_name_dict" \in DOMAIN tr[p]

Failed(r) == r.pc = "done" /\ r.error # ""

Succeeded(r) == r.pc = "done" /\ r.error = ""

\* C7: a training run whose table holds fewer than 2 distinct achievements
\* of the game ends in a failure that reaches the caller: it raises, and
\* does not return as a successful run does.
C7_TooFewAchievementsRaises ==
    \A p \in Procs :
        (tr[p].pc = "done" /\ BuiltMaps(p) /\ Len(tr[p].achievement_name_dict) < 2)
            => (tr[p].raised /\ tr[p].error # "")

\* C8: no step of a training run other than its successful completion
\* changes the model directory, so a run that fails at the catalog, in the
\* crawl, in the sequences or in the fit leaves the directory as it was.
C8_FailedRunWritesNothing ==
    [][\A p \in Procs :
          (tr'[p] # tr[p] /\ ~Succeeded(tr'[p])) => store' = store]_vars

\* a run has failed in the fit
C8_Witness ==
    \E p \in Procs : Failed(tr[p]) /\ tr[p].stage = "fit" /\ db # <<>>

FirstIndex(column, x) ==
    CHOOSE i \in 1..Len(column) : column[i] = x /\ \A j \in 1..(i - 1) : column[j] # x

\* d numbers the distinct values of the column 1..k in order of first
\* appearance
NumbersInFirstSeenOrder(d, column) ==
    /\ Range(DictKeys(d)) = Range(column)
    /\ Len(d) = Cardinality(Range(column))
    /\ Range(DictValues(d)) = 1..Len(d)
    /\ \A i, j \in 1..Len(d) :
          d[i][2] < d[j][2] <=> FirstIndex(column, d[i][1]) < FirstIndex(column, d[j][1])

\* C10: the player map and the achievement map a training run builds give
\* the k distinct values of their column the identifiers 1..k in order of
\* first appearance in the table; 0 is given to none.
C10_MapsNumberFromOne ==
    \A p \in Procs :
        BuiltMaps(p) =>
            /\ NumbersInFirstSeenOrder(tr[p].steam_id_dict,
                   Column(load_interactions_from_sqlite(db, tr[p].appid), "steamid"))
            /\ NumbersInFirstSeenOrder(tr[p].achievement_name_dict,
                   Column(load_interactions_from_sqlite(db, tr[p].appid), "apiname"))
            /\ 0 \notin Range(DictValues(tr[p].steam_id_dict))
            /\ 0 \notin Range(DictValues(tr[p].achievement_name_dict))

\* a run has numbered two players and two achievements, the achievement
\* seen first not being the first of the schema
C10_Witness ==
    \E p \in Procs :
        /\ BuiltMaps(p)
        /\ Len(tr[p].steam_id_dict) = 2
        /\ Len(tr[p].achievement_name_dict) >= 2
        /\ tr[p].achievement_name_dict[1] = <<"a2", 1>>

----------------------------------------------------------------------------
(* Properties of the model directory, checked under SpecStore.             *)

\* the files a training of the game writes: the game's id, an underscore
\* and the stamp of save_model or of fetch_data_and_train_model
ArtifactsOfGame(dir, appid) ==
    {m \in DOMAIN dir :
        \E t \in ClockValues :
            \/ m = ModelName(appid, FormatDateTime(t))
            \/ m = ModelName(appid, FormatDate(t))}

\* the stamp in the name of the game's artifact, as the pair it sorts by; a
\* date alone is the start of that day
StampOf(m, appid) ==
    LET stamp == SubSeq(m, Len(appid) + 2, Len(m))
    IN <<DigitValue(stamp[1]), IF Len(stamp) = 3 THEN DigitValue(stamp[3]) ELSE 0>>

StampLeq(a, b) == a[1] < b[1] \/ (a[1] = b[1] /\ a[2] <= b[2])

LoadsWithoutArtifact ==
    /\ res = NoResult
    /\ \/ res'.op = "load_latest"
       \/ res'.op = "script" /\ res'.loaded
    /\ ArtifactsOfGame(store, res'.appid) = {}

ModelNotFound ==
    \/ res'.op = "load_latest" /\ ~res'.loaded.ok /\ res'.loaded.error = "FileNotFoundError"
    \/ res'.op = "script" /\ ~res'.ok /\ res'.error = "FileNotFoundError"

\* C6: a load for a game without an artifact fails with the error that no
\* model was found, trains nothing and leaves the directory as it was.
C6_LoadWithoutArtifactFails ==
    [][LoadsWithoutArtifact => (ModelNotFound /\ store' = store)]_vars

\* a step in which a training completes: a run of fetch_data_and_train_model
\* saving its model, or load_most_recent_model saving the one it fitted
TrainingCompletes ==
    \/ \E p \in Procs : tr[p].pc = "fitted" /\ Succeeded(tr'[p])
    \/ res = NoResult /\ res'.op = "script" /\ res'.trained

AddsOneArtifact ==
    /\ \E name \in DOMAIN store' : name \notin DOMAIN store
                                   /\ DOMAIN store' = DOMAIN store \cup {name}
    /\ \A m \in DOMAIN store : store'[m] = store[m]

\* C9: a training that completes adds exactly one new artifact to the
\* directory and leaves each artifact already there as it was.
C9_TrainingAddsOneArtifact ==
    [][TrainingCompletes => AddsOneArtifact]_vars

----------------------------------------------------------------------------
(* Properties of the sequences, checked under SpecRank.                    *)

\* the dense id the reverse map of a model gives a code, NaN for none
IdOfCode(reverse_map, code) ==
    IF \E i \in 1..Len(reverse_map) : reverse_map[i][2] = code
    THEN reverse_map[CHOOSE i \in 1..Len(reverse_map) : reverse_map[i][2] = code][1]
    ELSE NaN

\* the events that count: unlock time not 0 and a code the map knows
Qualifying(codes, times, reverse_map) ==
    {i \in 1..Len(codes) : times[i] # 0 /\ IdOfCode(reverse_map, codes[i]) # NaN}

\* the place of event i among the qualifying events by unlock time, events of
\* equal time in input order
PlaceOf(i, codes, times, reverse_map) ==
    Cardinality({j \in Qualifying(codes, times, reverse_map) :
                    times[j] < times[i] \/ (times[j] = times[i] /\ j <= i)})

ChronologicalIds(codes, times, reverse_map) ==
    [n \in 1..Cardinality(Qualifying(codes, times, reverse_map)) |->
        IdOfCode(reverse_map,
                 codes[CHOOSE i \in Qualifying(codes, times, reverse_map) :
                           PlaceOf(i, codes, times, reverse_map) = n])]

ZerosThen(ids, capacity) ==
    [n \in 1..capacity |->
        IF n <= capacity - Len(ids) THEN 0 ELSE ids[n - (capacity - Len(ids))]]

ZeroOnlyAsPrefix(sequence) ==
    \A i, j \in 1..Len(sequence) : (i < j /\ sequence[j] = 0) => sequence[i] = 0

RowsOfPlayer(table, appid, player) ==
    SelectSeq(table, LAMBDA r : r.appid = appid /\ r.steamid = player)

\* the number a value gets when the values of a column are numbered from 1
\* in order of first appearance
FirstSeenId(column, x) ==
    Cardinality({y \in Range(column) : FirstIndex(column, y) <= FirstIndex(column, x)})

\* the sequence C11 asks for the player, from the rows of the table
ExpectedOfPlayer(table, appid, player, reverse_map) ==
    ZerosThen(ChronologicalIds(Column(RowsOfPlayer(table, appid, player), "apiname"),
                               Column(RowsOfPlayer(table, appid, player), "unlocked"),
                               reverse_map),
              Len(reverse_map))

HasQualifying(table, appid, player, reverse_map) ==
    Qualifying(Column(RowsOfPlayer(table, appid, player), "apiname"),
               Column(RowsOfPlayer(table, appid, player), "unlocked"),
               reverse_map) # {}

\* the sequences of the training run that saved the artifact are those of
\* the players of the table that have a qualifying event
TrainedOnExpected(model, table, appid) ==
    /\ Range(model.fitted_on) =
          {[user |-> FirstSeenId(Column(SelectSeq(table, LAMBDA r : r.appid = appid),
                                        "steamid"), player),
            sequence |-> ExpectedOfPlayer(table, appid, player,
                                          model.achievement_name_dict)] :
             player \in {q \in Players :
                            HasQualifying(table, appid, q, model.achievement_name_dict)}}
    /\ \A i \in 1..Len(model.fitted_on) : ZeroOnlyAsPrefix(model.fitted_on[i].sequence)

\* the sequence built of the player's history for scoring
ScoredOnExpected ==
    (res.op = "predict" /\ res.input.stage = "score") =>
        /\ res.input.player_sequence =
              ZerosThen(ChronologicalIds(Column(res.history, "apiname"),
                                         Column(res.history, "unlocktime"),
                                         res.input.model.achievement_name_dict),
                        Len(res.input.model.achievement_name_dict))
        /\ ZeroOnlyAsPrefix(res.input.player_sequence)

\* C11: the sequence built for a player, in training and in scoring, is the
\* dense ids of that player's events of nonzero unlock time in ascending
\* order of time, events of equal time in input order, after zeros up to the
\* capacity; an event of time 0 gives no id and 0 stands only in the padding.
C11_SequencesChronological ==
    /\ \A name \in DOMAIN store :
          store[name].has_dict => TrainedOnExpected(store[name], db, <<"1">>)
    /\ ScoredOnExpected

\* a model fitted on two players, one of them with a row of unlock time 0
\* beside a qualifying one and one with unlocks against the order of the
\* schema, has scored a history of two events against that order
C11_Witness ==
    /\ res.op = "predict" /\ res.input.stage = "score"
    /\ \E j, k \in 1..Len(res.history) :
          /\ j < k /\ res.history[j].unlocktime > res.history[k].unlocktime
          /\ res.history[k].unlocktime > 0
    /\ \E i, j \in 1..Len(db) :
          db[i].steamid = db[j].steamid /\ db[i].unlocked = 0 /\ db[j].unlocked # 0
    /\ \E name \in DOMAIN store :
          /\ Len(store[name].fitted_on) = 2
          /\ \E r \in Range(store[name].fitted_on) :
                \E n \in 1..(Len(r.sequence) - 1) :
                    r.sequence[n] > r.sequence[n + 1] /\ r.sequence[n + 1] # 0

----------------------------------------------------------------------------
(* Properties of sequence construction, checked under SpecRetrain.         *)

\* the players of the game with a row of unlock time other than 0
PlayersWithEvents(table, appid) ==
    {q \in Players : \E i \in 1..Len(table) :
        table[i].appid = appid /\ table[i].steamid = q /\ table[i].unlocked # 0}

OneRowPerKey(table) ==
    \A i, j \in 1..Len(table) :
        (/\ table[i].steamid = table[j].steamid
         /\ table[i].appid = table[j].appid
         /\ table[i].apiname = table[j].apiname) => i = j

\* a run reads the table, builds its sequences and fits
FitsOn(p) == tr[p].pc = "crawled" /\ tr'[p].pc = "fitted"

\* one sequence for each player with an event that counts, none else, each
\* of the capacity, which no player's events exceed
OneSequencePerPlayer(p) ==
    /\ OneRowPerKey(db)
    /\ \A q \in Players :
          Len(RowsOfPlayer(db, tr'[p].appid, q)) <= Len(tr'[p].achievement_name_dict)
    /\ \A i, j \in 1..Len(tr'[p].sequences) :
          tr'[p].sequences[i].user = tr'[p].sequences[j].user => i = j
    /\ {tr'[p].sequences[i].user : i \in 1..Len(tr'[p].sequences)} =
          {DictGet(tr'[p].steam_id_dict, q) : q \in PlayersWithEvents(db, tr'[p].appid)}
    /\ \A i \in 1..Len(tr'[p].sequences) :
          Len(tr'[p].sequences[i].sequence) = Len(tr'[p].achievement_name_dict)

\* C12: a training run emits exactly one sequence for each player with a
\* qualifying event and never several windows of one player: the table
\* holds one row per (player, game, achievement), so no player has more
\* events than the capacity, the number of distinct codes of the game.
C12_OneSequencePerPlayer ==
    [][\A p \in Procs : FitsOn(p) => OneSequencePerPlayer(p)]_vars

\* a run was fitted on a table in which p1 was crawled twice, the second
\* time with an achievement more, and p2 in between
C12_Witness ==
    \E p \in Procs :
        /\ tr[p].pc = "fitted"
        /\ Len(tr[p].sequences) = 2
        /\ Len(db) = 3
        /\ db[1].steamid = "p1" /\ db[2].steamid = "p2" /\ db[3].steamid = "p1"

----------------------------------------------------------------------------
(* Properties of the map used in scoring, checked under SpecStore.         *)

\* the code -> id map an artifact carries: its attached reverse map, turned
\* round
MapOfArtifact(model) == [i \in 1..Len(model.achievement_name_dict) |->
                            <<model.achievement_name_dict[i][2],
                              model.achievement_name_dict[i][1]>>]

\* C13: when a loaded model has given scores, the map that encoded the
\* history and labelled the scores is the one recovered from the reverse
\* map attached to the artifact, not one rebuilt from the table as it is now.
C13_ScoresUseMapOfArtifact ==
    /\ (res.op = "script" /\ res.ok /\ ~res.trained)
          => /\ res.model.has_dict
             /\ res.achievement_name_dict = MapOfArtifact(res.model)
    /\ (res.op = "predict" /\ res.input.stage = "score")
          => /\ res.input.model.has_dict
             /\ res.input.achievement_name_dict = MapOfArtifact(res.input.model)

----------------------------------------------------------------------------
(* The order of a ranking, checked under SpecRank.                         *)

\* the scores of a ranking never rise, and of two entries with the same
\* score the one whose code has the smaller dense id comes first
RankedInOrder(series, achievement_name_dict) ==
    \A i, j \in 1..Len(series) :
        i < j => \/ series[i][2] > series[j][2]
                 \/ /\ series[i][2] = series[j][2]
                    /\ DictGet(achievement_name_dict, series[i][1])
                           < DictGet(achievement_name_dict, series[j][1])

\* C14: every ranking that comes out (of predict_scores, of the join with
\* the descriptions, of the script of model.py) has non-increasing scores,
\* and entries of equal score stand in ascending order of their dense id.
C14_RankedByScoreThenId ==
    /\ PredictReturnedSeries
          => RankedInOrder(res.predicted.series, res.input.achievement_name_dict)
    /\ (PredictReturnedSeries /\ res.joined.ran /\ res.joined.ok)
          => RankedInOrder(res.joined.rows, res.input.achievement_name_dict)
    /\ (res.op = "script" /\ res.ok)
          => RankedInOrder(res.series, res.achievement_name_dict)

----------------------------------------------------------------------------
(* The lifecycle of a model, checked under SpecStore.                      *)

\* a model whose fit has completed: it has its output layer (num_items
\* scores) and the sequences it was fitted on
IsTrained(model) ==
    /\ model.num_items >= 1
    /\ model.fitted_on # <<>>

\* a fitted model that carries the reverse achievement map
SavedWithMap(model) ==
    /\ IsTrained(model)
    /\ model.has_dict

\* the model a scoring has used, if it has scored
ScoringUsesTrained ==
    /\ (res.op = "script" /\ res.ok) => IsTrained(res.model)
    /\ (res.op = "predict" /\ res.input.stage = "score") => IsTrained(res.input.model)

\* C15: every artifact of the model store is a fitted model with its reverse
\* achievement map attached, and a model that produced scores is a fitted
\* one.
C15_ArtifactsTrainedWithMap ==
    /\ \A name \in DOMAIN store : SavedWithMap(store[name])
    /\ ScoringUsesTrained

----------------------------------------------------------------------------
(* The score vector of a model against its reverse map, checked under      *)
(* SpecRank.                                                               *)

\* each entry of a ranking reports the score that stands at the index equal
\* to the dense id of its code (index 0 is scores[1] here)
ReportsScoreAtId(series, scores, achievement_name_dict) ==
    \A i \in 1..Len(series) :
        /\ DictGet(achievement_name_dict, series[i][1]) + 1 \in 1..Len(scores)
        /\ series[i][2] = scores[DictGet(achievement_name_dict, series[i][1]) + 1]

\* C16: when predict_scores scores a sequence with a loaded model whose
\* reverse map has k entries, the network yields k + 1 scores, the ranking
\* is produced, and every code is reported with the score at the index of
\* its dense id; the training table may hold an achievement only with unlock
\* time 0.
C16_OneScorePerMapEntry ==
    (res.op = "predict" /\ res.input.stage = "score")
        => /\ Len(res.scores) = Len(res.input.model.achievement_name_dict) + 1
           /\ res.predicted.ok
           /\ ReportsScoreAtId(res.predicted.series, res.scores,
                               res.input.achievement_name_dict)

----------------------------------------------------------------------------
(* The review crawl of get_achievements_for_appid and get_steam_ids, page  *)
(* by page.                                                                *)

\* largest n_steam_ids a crawl is asked for
MaxSteamIds == 2
\* most reviews the review source puts on one page
MaxPage == 2

\* what get_player_achievements gives for the author of a review: a list
\* (empty for a private profile or a failed request), or requests.get raises
ReviewAnswers ==
    {[kind |-> "raises"]}
        \cup {[kind |-> "list", achievements |-> l] :
                l \in {<<>>,
                       <<[apiname |-> "a1", unlocktime |-> 1]>>,
                       <<[apiname |-> "a1", unlocktime |-> 1],
                         [apiname |-> "a2", unlocktime |-> 2]>>}}

Reviews == [steamid : Players, answer : ReviewAnswers]

\* what one request of the appreviews page brings: the request fails, the
\* body is no JSON, success is not 1, the page is the last one (no reviews or
\* an empty cursor), or a page of reviews
ReviewPages ==
    {[kind |-> "RequestException"], [kind |-> "ValueError"],
     [kind |-> "unsuccessful"], [kind |-> "last"]}
        \cup {[kind |-> "reviews", reviews |-> r] :
                r \in UNION {[1..n -> Reviews] : n \in 1..MaxPage}}

\* `for review in reviews:` over one page.  acc holds the table, the set
\* unique_steam_ids and the exception that ended the loop ("" for none).
\* get_steam_ids calls save_player_achievements_to_sqlite with three
\* arguments for its four parameters: a TypeError.
RECURSIVE VisitReviews(_, _, _, _)
VisitReviews(fn, appid, acc, reviews) ==
    IF reviews = <<>> \/ acc.error # "" THEN acc
    ELSE IF reviews[1].steamid \in acc.unique_steam_ids
    THEN VisitReviews(fn, appid, acc, Tail(reviews))
    ELSE IF reviews[1].answer.kind = "raises"
    THEN [acc EXCEPT !.error = "RequestException"]
    ELSE IF fn = "get_steam_ids"
    THEN [acc EXCEPT !.error = "TypeError"]
    ELSE IF reviews[1].answer.achievements = <<>>
    THEN VisitReviews(fn, appid, acc, Tail(reviews))
    ELSE VisitReviews(fn, appid,
            [table |-> save_player_achievements_to_sqlite(
                           acc.table, reviews[1].answer.achievements,
                           reviews[1].steamid, appid),
             unique_steam_ids |-> acc.unique_steam_ids \cup {reviews[1].steamid},
             error |-> ""],
            Tail(reviews))

\* the call has ended: the loop was left, or an exception went up
Collected(crawl, unique_steam_ids, error) ==
    [pc |-> "collected", fn |-> crawl.fn, appid |-> crawl.appid,
     n_steam_ids |-> crawl.n_steam_ids,
     unique_steam_ids |-> unique_steam_ids,
     raised |-> error # "", error |-> error]

\* the call up to the first test of the while loop
CrawlStart(p, fn, appid, n_steam_ids) ==
    /\ tr[p].pc = "idle"
    /\ tr' = [tr EXCEPT ![p] = [pc |-> "crawling", fn |-> fn, appid |-> appid,
                                n_steam_ids |-> n_steam_ids,
                                unique_steam_ids |-> {}]]
    /\ UNCHANGED <<db, store, now, res>>

PageVisited(p, acc) ==
    /\ db' = acc.table
    /\ tr' = [tr EXCEPT ![p] =
                IF acc.error # ""
                THEN Collected(tr[p], acc.unique_steam_ids, acc.error)
                ELSE [tr[p] EXCEPT !.unique_steam_ids = acc.unique_steam_ids]]

\* one pass of `while len(unique_steam_ids) < n_steam_ids:`: a page is
\* fetched; a break leaves the loop, else every review of the page is visited
CrawlPage(p, page) ==
    /\ tr[p].pc = "crawling"
    /\ Cardinality(tr[p].unique_steam_ids) < tr[p].n_steam_ids
    /\ IF page.kind # "reviews"
       THEN /\ tr' = [tr EXCEPT ![p] = Collected(tr[p], tr[p].unique_steam_ids, "")]
            /\ db' = db
       ELSE PageVisited(p, VisitReviews(tr[p].fn, tr[p].appid,
                            [table |-> db,
                             unique_steam_ids |-> tr[p].unique_steam_ids,
                             error |-> ""],
                            page.reviews))
    /\ UNCHANGED <<store, now, res>>

\* the test of the while loop fails: the loop ends
CrawlEnd(p) ==
    /\ tr[p].pc = "crawling"
    /\ Cardinality(tr[p].unique_steam_ids) >= tr[p].n_steam_ids
    /\ tr' = [tr EXCEPT ![p] = Collected(tr[p], tr[p].unique_steam_ids, "")]
    /\ UNCHANGED <<db, store, now, res>>

\* two calls may run side by side on the one table
NextCrawl ==
    \/ \E p \in Procs, fn \in {"get_achievements_for_appid", "get_steam_ids"}, n_steam_ids \in 1..MaxSteamIds : CrawlStart(p, fn, <<"1">>, n_steam_ids)
    \/ \E p \in Procs, page \in ReviewPages : CrawlPage(p, page)
    \/ \E p \in Procs : CrawlEnd(p)

SpecCrawl == InitFresh /\ [][NextCrawl]_vars

----------------------------------------------------------------------------
(* Properties of the crawl, checked under SpecCrawl.                       *)

Crawls == {p \in Procs : tr[p].pc \in {"crawling", "collected"}}

\* every player counted has rows of the game in the table
CountedOnlyIfSaved ==
    \A p \in Crawls : \A steam_id \in tr[p].unique_steam_ids :
        \E i \in 1..Len(db) : db[i].steamid = steam_id /\ db[i].appid = tr[p].appid

\* C17: while a crawl runs and after it has ended, the set of players it
\* has collected has at most n_steam_ids members, whatever pages the review
\* source returns, and each member had a non-empty achievement list saved.
C17_AtMostRequestedPlayers ==
    /\ \A p \in Crawls : Cardinality(tr[p].unique_steam_ids) <= tr[p].n_steam_ids
    /\ CountedOnlyIfSaved

============================================================================
